---- MODULE Spec2Model ----
(***************************************************************************)
(* Model of the DataMaps map controller (resources/loader/map.js):         *)
(* the coordinate reference system set up by the DataMap constructor,      *)
(* translatePoint / translateBox, waitForLeaflet's 25 ms polling,          *)
(* streamMarkersIn / instantiateMarkers, buildLeafletMap and               *)
(* setCurrentBackground with the background switch.                        *)
(*                                                                         *)
(* JavaScript runs one handler at a time, so every handler (a promise      *)
(* reaction, a timer callback, a module-loader callback, a DOM event) is   *)
(* one atomic action.  All timers use the same 25 ms delay, hence the      *)
(* timer queue is first-in first-out.                                      *)
(*                                                                         *)
(* Numbers that go through a division are exact rationals <<n, d>> with    *)
(* d > 0; d = 0 encodes the IEEE specials: <<1,0>> = Infinity,             *)
(* <<-1,0>> = -Infinity, <<0,0>> = NaN.  Rounding of doubles is not        *)
(* modelled.  Strings that the code splits are sequences of one-character  *)
(* strings.                                                                *)
(***************************************************************************)
EXTENDS Integers, Sequences, FiniteSets, TLC

\* ------------------------------------------------------------------ bounds
\* number of streamMarkersIn calls in one run
MaxRequests == 2
\* the streamMarkersIn calls of a page whose polling is followed
MaxPollers == 2
\* the streamMarkersIn calls of a page whose popups are followed
MaxPopupStreams == 1
\* number of page loads after the first
MaxReloads == 2
\* largest number of configured backgrounds
MaxBackgrounds == 2

\* ------------------------------------------------------------ program data
\* const CRSOrigin = { TopLeft: 1, BottomLeft: 2 }
TopLeft == 1
BottomLeft == 2

\* the numerator of the scale factors and the delay of the re-poll
ScaleRange == 100
PollDelay == 25

\* JavaScript null / undefined for optional values, and a present value
Null == <<>>
Some(v) == <<v>>
ValueOf(o) == o[1]

\* --------------------------------------------------------------- arithmetic
Abs(i) == IF i < 0 THEN -i ELSE i
Sign(i) == IF i < 0 THEN -1 ELSE IF i > 0 THEN 1 ELSE 0
Max(a, b) == IF a >= b THEN a ELSE b

RECURSIVE GCD(_, _)
GCD(a, b) == IF b = 0 THEN a ELSE GCD(b, a % b)

\* the rational n / d, d # 0, in lowest terms with a positive denominator
Norm(n, d) ==
    LET s == IF d < 0 THEN -1 ELSE 1
        g == GCD(Abs(n), Abs(d))
    IN  << (s * n) \div g, (s * d) \div g >>

NaN == << 0, 0 >>
Infinity(sign) == << sign, 0 >>
IsFinite(q) == q[2] # 0

\* a / b on two integers, as JavaScript's / computes it
JsDiv(a, b) ==
    IF b = 0 THEN (IF a = 0 THEN NaN ELSE Infinity(Sign(a)))
    ELSE Norm(a, b)

\* i * q for an integer i and a number q, as JavaScript's * computes it
JsMul(i, q) ==
    IF IsFinite(q) THEN Norm(i * q[1], q[2])
    ELSE IF q[1] = 0 \/ i = 0 THEN NaN
    ELSE Infinity(Sign(i) * q[1])

\* an integer as a number
Num(i) == << i, 1 >>

\* q / s on two numbers, as JavaScript's / computes it (no negative zero)
JsDivNum(q, s) ==
    IF q = NaN \/ s = NaN THEN NaN
    ELSE IF ~IsFinite(q)
         THEN (IF ~IsFinite(s) THEN NaN
               ELSE Infinity(q[1] * (IF s[1] < 0 THEN -1 ELSE 1)))
    ELSE IF ~IsFinite(s) THEN Num(0)
    ELSE IF s[1] = 0 THEN (IF q[1] = 0 THEN NaN ELSE Infinity(Sign(q[1])))
    ELSE Norm(q[1] * s[2], q[2] * s[1])

\* i - q for an integer i and a number q, as JavaScript's - computes it
JsSubFrom(i, q) ==
    IF IsFinite(q) THEN Norm(i * q[2] - q[1], q[2])
    ELSE IF q = NaN THEN NaN
    ELSE Infinity(-q[1])

\* a <= b on two numbers, as JavaScript's <= computes it: false with a NaN
JsLeq(a, b) ==
    IF a = NaN \/ b = NaN THEN FALSE
    ELSE IF IsFinite(a) /\ IsFinite(b) THEN a[1] * b[2] <= b[1] * a[2]
    ELSE IF ~IsFinite(a) THEN (a[1] = -1 \/ b = a)
    ELSE b[1] = 1

\* ------------------------------------------------------------------- strings
\* index of the first separator in s, 0 if there is none
RECURSIVE IndexOf(_, _, _)
IndexOf(s, sep, from) ==
    IF from > Len(s) THEN 0
    ELSE IF s[from] = sep THEN from
    ELSE IndexOf(s, sep, from + 1)

\* String.prototype.split( ' ' )
RECURSIVE Split(_)
Split(s) ==
    LET k == IndexOf(s, " ", 1)
    IN  IF k = 0 THEN << s >>
        ELSE << SubSeq(s, 1, k - 1) >> \o Split(SubSeq(s, k + 1, Len(s)))

\* the set of elements of a sequence
Range(s) == { s[i] : i \in DOMAIN s }

\* ------------------------------------------------------------ configuration
\* config.groups: the known group identifiers and what the code reads of them
\* "c" has an icon and is collectible, "n" has an icon and collectibility none,
\* "o" is drawn as a circle and has collectibility none
GroupNames == { << "c" >>, << "n" >>, << "o" >> }
Groups == [ g \in GroupNames |->
              IF g = << "c" >> THEN [ markerIcon |-> TRUE, canDismiss |-> TRUE ]
              ELSE IF g = << "n" >> THEN [ markerIcon |-> TRUE, canDismiss |-> FALSE ]
              ELSE [ markerIcon |-> FALSE, canDismiss |-> FALSE ] ]

\* marker instances of the payloads: [ lat, lon, slots ]
Inst(lat, lon) == [ lat |-> lat, lon |-> lon, uid |-> Null ]
\* an instance whose slots carry an explicit uid
InstUid(lat, lon, u) == [ lat |-> lat, lon |-> lon, uid |-> Some(u) ]

\* data.query.markers: buckets in key order, each a layer-combination key
\* and its placements.  "x" is a group config.groups does not know.
Bucket(key, placements) == [ markerType |-> key, placements |-> placements ]
PayloadChest == << Bucket(<< "c" >>, << Inst(25, 75) >>) >>
PayloadCave == << Bucket(<< "c", " ", "v" >>, << Inst(50, 50) >>),
                 Bucket(<< "o" >>, << Inst(0, 100) >>) >>
PayloadUnknown == << Bucket(<< "c" >>, << Inst(25, 75) >>),
                    Bucket(<< "x" >>, << Inst(75, 25) >>) >>
Payloads == { PayloadChest, PayloadCave, PayloadUnknown }
PayloadUid == << Bucket(<< "c" >>, << InstUid(25, 75, << "u" >>) >>),
                Bucket(<< "n" >>, << Inst(75, 25) >>) >>
\* the payloads of the popup runs
PopupPayloads == { PayloadCave, PayloadUid }

\* what mwApi.get resolves with: an error report or the markers
ErrorResponse == [ error |-> TRUE, markers |-> Null ]
DataResponse(p) == [ error |-> FALSE, markers |-> Some(p) ]
Responses == { ErrorResponse } \cup { DataResponse(p) : p \in Payloads }
PopupResponses == { DataResponse(p) : p \in PopupPayloads }

\* config.crs of the controller runs: the two orientations
Corner(a, b) == << a, b >>
CrsLowerUpper == << Corner(0, 0), Corner(100, 100) >>
CrsUpperLower == << Corner(100, 100), Corner(0, 0) >>
ControllerCrs == { CrsLowerUpper, CrsUpperLower }

\* config.crs and the arguments of the coordinate-transform runs
CrsVals == { -100, 0, 50, 100 }
PointVals == { -50, 0, 25, 75, 100 }
AllCrs == { << Corner(a, b), Corner(c, d) >> : a \in CrsVals, b \in CrsVals,
                                                c \in CrsVals, d \in CrsVals }
Points == { << a, b >> : a \in PointVals, b \in PointVals }
Boxes == { << p, q >> : p \in Points, q \in Points }

\* what the durable storage may hold under 'background' when the page loads:
\* nothing, or an index written by an earlier page load (whose configuration
\* may have had more backgrounds)
StoredIndexes == (-1 .. MaxBackgrounds + 1) \cup { 7 }
StoredValues == { Null } \cup { Some(i) : i \in StoredIndexes }

\* --------------------------------------------------------------------- state
VARIABLES
    crs,             \* this.config.crs
    crsOrigin,       \* this.crsOrigin
    crsScaleY,       \* this.crsScaleY
    crsScaleX,       \* this.crsScaleX
    numBackgrounds,  \* this.config.backgrounds.length
    background,      \* this.background: Null or Some(index into backgrounds)
    backgroundIndex, \* this.backgroundIndex
    leaflet,         \* this.leaflet: Null or Some("map")
    mapLayers,       \* the background layers that are on the Leaflet map
    viewBounds,      \* the box last given to leaflet.fitBounds
    stored,          \* storage entry 'background'
    registered,      \* layer manager: the registered layer names
    members,         \* layer manager: the markers added, in order
    overlaps,        \* pairs << a, b >>: the fetch of a was outstanding when b was called
    fetch,           \* streamMarkersIn calls: request -> what mwApi.get delivered
    requests,        \* streamMarkersIn calls: request -> how far its handling got
    timers,          \* pending setTimeout callbacks, in firing order
    polled,          \* the requests whose callback has been put on a timer
    issued,          \* callbacks in the order waitForLeaflet first got them
    invoked,         \* callbacks in the order they were invoked
    successCalls,    \* request -> number of successCallback invocations
    errorCalls,      \* request -> number of errorCallback invocations
    execLog,         \* operations executed, each with this.leaflet at entry
    lastBackgroundRequest, \* argument of the last setCurrentBackground call
    call,            \* last direct call of a coordinate transform
    markerIdToAutoOpen, \* this.markerIdToAutoOpen: Null or Some(key)
    urlMarker,       \* the marker parameter of the page URL: Null or Some(key)
    popup,           \* the marker whose popup is open: Null or Some(index in members)
    popupCalls,      \* the openPopup calls of onMarkerReady
    lastPopupEvent,  \* the last popup event since the page loaded: "none", "open",
                     \* "switch" (opened while another popup was open) or "close"
    dismissals,      \* storage: the keys that have a dismissal entry
    managerLog,      \* the last instantiateMarkers run: its payload and its
                     \* calls of the layer manager, in order
    chosen,          \* the option last chosen in the background switch
    reloads,         \* number of page loads after the first
    streams          \* number of streamMarkersIn calls the page makes at most

vars == << crs, crsOrigin, crsScaleY, crsScaleX, numBackgrounds, background,
           backgroundIndex, leaflet, mapLayers, viewBounds, stored, registered,
           members, overlaps, fetch, requests, timers, polled, issued, invoked, successCalls,
           errorCalls, execLog, lastBackgroundRequest, call, markerIdToAutoOpen,
           urlMarker, popup, popupCalls, lastPopupEvent, dismissals, managerLog,
           chosen, reloads, streams >>

configVars == << crs, crsOrigin, crsScaleY, crsScaleX, numBackgrounds, streams >>
backgroundVars == << background, backgroundIndex, mapLayers, viewBounds,
                     lastBackgroundRequest >>
markerVars == << registered, members >>
callbackVars == << issued, invoked, successCalls >>
popupVars == << urlMarker, popup, popupCalls, lastPopupEvent, managerLog >>
sessionVars == << markerIdToAutoOpen, dismissals, chosen, reloads >>

\* ------------------------------------------------- coordinate reference system
\* the orientation test with "or" for "and": one smaller axis is enough
CrsOriginOfEitherAxis(c) ==
    IF c[1][1] < c[2][1] \/ c[1][2] < c[2][2] THEN TopLeft ELSE BottomLeft

\* the constructor's orientation test
CrsOriginOf(c) ==
    IF c[1][1] < c[2][1] /\ c[1][2] < c[2][2] THEN TopLeft ELSE BottomLeft

\* the constructor's scale factors; axis 1 is the latitude, axis 2 the longitude
CrsScaleOf(c, axis) == JsDiv(ScaleRange, Max(c[1][axis], c[2][axis]))

\* translatePoint flipping the second component instead of the first
TranslatePointFlipSecond(point) ==
    IF crsOrigin = TopLeft
    THEN << JsMul(point[1], crsScaleY), JsMul(crs[2][2] - point[2], crsScaleX) >>
    ELSE << JsMul(point[1], crsScaleY), JsMul(point[2], crsScaleX) >>

\* DataMap.prototype.translatePoint
TranslatePoint(point) ==
    IF crsOrigin = TopLeft
    THEN << JsMul(crs[2][1] - point[1], crsScaleY), JsMul(point[2], crsScaleX) >>
    ELSE << JsMul(point[1], crsScaleY), JsMul(point[2], crsScaleX) >>

\* DataMap.prototype.translateBox
TranslateBox(box) ==
    IF crsOrigin = TopLeft
    THEN << << JsMul(crs[2][1] - box[1][1], crsScaleY), JsMul(box[1][2], crsScaleX) >>,
            << JsMul(crs[2][1] - box[2][1], crsScaleY), JsMul(box[2][2], crsScaleX) >> >>
    ELSE << << JsMul(box[1][1], crsScaleY), JsMul(box[1][2], crsScaleX) >>,
            << JsMul(box[2][1], crsScaleY), JsMul(box[2][1], crsScaleX) >> >>

\* the range test of the coordinate tracker's mousemove handler
InTrackerRange(latlng) ==
    /\ JsLeq(Num(-5), latlng[1]) /\ JsLeq(latlng[1], Num(105))
    /\ JsLeq(Num(-5), latlng[2]) /\ JsLeq(latlng[2], Num(105))

\* the mousemove handler's way back from a render point to native coordinates
RenderToNative(latlng) ==
    LET lat == JsDivNum(latlng[1], crsScaleY)
        lon == JsDivNum(latlng[2], crsScaleX)
    IN  << IF crsOrigin = TopLeft THEN JsSubFrom(crs[2][1], lat) ELSE lat, lon >>

\* the native coordinates the tracker shows for a mouse position, Null when
\* the handler leaves the tracker alone
TrackerCoordinates(latlng) ==
    IF InTrackerRange(latlng) THEN Some(RenderToNative(latlng)) ELSE Null

\* ---------------------------------------------------------------- markers
\* MapStorage.getMarkerKey: a key derived from the layer-combination key and
\* the coordinates of the instance
GetMarkerKey(markerType, instance) ==
    << "M" >> \o markerType \o << "@", ToString(instance.lat), ":", ToString(instance.lon) >>

\* MapStorage.isDismissed: the marker's key has a dismissal entry
IsDismissed(markerType, instance) == GetMarkerKey(markerType, instance) \in dismissals

\* the Leaflet marker built for one placement (ghost field request: the
\* streamMarkersIn call whose payload it comes from).  Only an icon marker is
\* given a dismissed option.
MakeMarker(markerType, instance, groupName, req) ==
    [ type      |-> markerType,
      instance  |-> instance,
      position  |-> TranslatePoint(<< instance.lat, instance.lon >>),
      kind      |-> IF Groups[groupName].markerIcon THEN "icon" ELSE "circle",
      dismissed |-> IF Groups[groupName].markerIcon /\ Groups[groupName].canDismiss
                    THEN IsDismissed(markerType, instance)
                    ELSE FALSE,
      request   |-> req ]

\* MarkerLayerManager.register applied to each name of a set: idempotent,
\* an unseen name gets an empty membership set
RegisterEach(names, new) == names \cup new

\* MarkerLayerManager.addMember: the marker joins the manager under its key
AddMember(ms, marker) == Append(ms, marker)

\* a first loop that registers the group of each key only
RegisterAllGroupsOnly(names, data) ==
    RegisterEach(names, { Split(data[i].markerType)[1] : i \in DOMAIN data })

\* instantiateMarkers, first loop: every token of every key is registered
RegisterAll(names, data) ==
    RegisterEach(names, UNION { Range(Split(data[i].markerType)) : i \in DOMAIN data })

\* the placements of one bucket, added in order
RECURSIVE AddPlacements(_, _, _, _, _)
AddPlacements(ms, bucket, groupName, req, j) ==
    IF j > Len(bucket.placements) THEN ms
    ELSE AddPlacements(
             AddMember(ms, MakeMarker(bucket.markerType, bucket.placements[j],
                                      groupName, req)),
             bucket, groupName, req, j + 1)

\* instantiateMarkers, second loop from bucket i on.  config.groups[groupName]
\* is undefined for an unknown group, and reading group.markerIcon for the
\* first placement of such a bucket throws a TypeError that ends the loop.
RECURSIVE Unpack(_, _, _, _)
Unpack(ms, data, req, i) ==
    IF i > Len(data) THEN [ members |-> ms, threw |-> FALSE ]
    ELSE LET bucket == data[i]
             groupName == Split(bucket.markerType)[1]
         IN  IF groupName \notin DOMAIN Groups
             THEN IF Len(bucket.placements) > 0
                  THEN [ members |-> ms, threw |-> TRUE ]
                  ELSE Unpack(ms, data, req, i + 1)
             ELSE Unpack(AddPlacements(ms, bucket, groupName, req, 1),
                         data, req, i + 1)

\* DataMap.prototype.instantiateMarkers
InstantiateMarkers(names, ms, data, req) ==
    LET unpacked == Unpack(ms, data, req, 1)
    IN  [ registered |-> RegisterAll(names, data),
          members    |-> unpacked.members,
          threw      |-> unpacked.threw ]

\* ------------------------------------------------------------------ popups
\* onMarkerReady comparing the storage's marker key whatever the slots hold
ReadyKeyDerivedOnly(markerType, instance) == GetMarkerKey(markerType, instance)

\* the key onMarkerReady compares with the requested marker id: the uid slot
\* if there is one, the storage's marker key otherwise
ReadyKey(markerType, instance) ==
    IF instance.uid # Null THEN ValueOf(instance.uid)
    ELSE GetMarkerKey(markerType, instance)

\* the condition under which onMarkerReady calls marker.openPopup()
OnMarkerReadyOpens(marker) ==
    /\ markerIdToAutoOpen # Null
    /\ ReadyKey(marker.type, marker.instance) = ValueOf(markerIdToAutoOpen)

\* a popupopen handler that hands over the storage's marker key whatever the
\* slots hold
PopupKeyDerivedOnly(markerType, instance) == GetMarkerKey(markerType, instance)

\* the key the popupopen handler of a marker hands to updateLocation
PopupKey(markerType, instance) ==
    IF instance.uid # Null THEN ValueOf(instance.uid)
    ELSE GetMarkerKey(markerType, instance)

\* MarkerPopup.updateLocation: the URL's marker parameter is set, or removed
\* for null
UpdateLocation(key) == key

\* the URL parameter after Leaflet opened the popup of marker: an open popup
\* is closed first (its popupclose handler runs), then popupopen is fired
UrlAfterOpen(marker) == UpdateLocation(Some(PopupKey(marker.type, marker.instance)))

\* the URL parameter after the popupclose handler
UrlAfterClose == UpdateLocation(Null)

\* the markers of ms, beyond the first n, on which onMarkerReady opens the popup
AutoOpened(ms, n) == { k \in (n + 1) .. Len(ms) : OnMarkerReadyOpens(ms[k]) }

\* the largest element of a non-empty set of numbers
Last(set) == CHOOSE k \in set : \A other \in set : other <= k

\* the number of placements in a payload
RECURSIVE PlacementCount(_, _)
PlacementCount(data, i) ==
    IF i > Len(data) THEN 0
    ELSE Len(data[i].placements) + PlacementCount(data, i + 1)

\* the register calls of instantiateMarkers' first loop, from bucket i on
RECURSIVE RegisterCalls(_, _)
RegisterCalls(data, i) ==
    IF i > Len(data) THEN << >>
    ELSE LET tokens == Split(data[i].markerType)
         IN  [ t \in DOMAIN tokens |-> << "register", tokens[t] >> ]
                 \o RegisterCalls(data, i + 1)

\* the calls instantiateMarkers makes of the layer manager, in order: the
\* register loop, then one addMember for each marker of ms beyond the first n
InstantiateLog(data, ms, n) ==
    RegisterCalls(data, 1)
        \o [ k \in 1 .. (Len(ms) - n) |-> << "addMember", ms[n + k].type >> ]

\* ------------------------------------------------------------- backgrounds
\* background.layers as buildLeafletMap prepares them: the image overlay and
\* one overlay layer
BackgroundLayers(i) == { << i, "image" >>, << i, "overlay" >> }

\* the validity check with > for >=: index = backgrounds.length passes
ClampIndexOffByOne(index) ==
    IF index < 0 \/ index > numBackgrounds THEN 0 ELSE index

\* setCurrentBackground's validity check
ClampIndex(index) ==
    IF index < 0 \/ index >= numBackgrounds THEN 0 ELSE index

\* setCurrentBackground without the removal of the current background's layers
SetCurrentBackgroundKeepsLayers(index, lf) ==
    LET idx == ClampIndex(index)
    IN  /\ background' = Some(idx)
        /\ backgroundIndex' = idx
        /\ mapLayers' = mapLayers \cup BackgroundLayers(idx)
        /\ lastBackgroundRequest' = Some(index)
        /\ execLog' = execLog \cup { [ op |-> "setCurrentBackground",
                                      leaflet |-> lf, req |-> 0 ] }

\* DataMap.prototype.setCurrentBackground, entered with this.leaflet = lf
SetCurrentBackground(index, lf) ==
    LET kept == IF background # Null
                THEN mapLayers \ BackgroundLayers(ValueOf(background))
                ELSE mapLayers
        idx == ClampIndex(index)
    IN  /\ background' = Some(idx)
        /\ backgroundIndex' = idx
        /\ mapLayers' = kept \cup BackgroundLayers(idx)
        /\ lastBackgroundRequest' = Some(index)
        /\ execLog' = execLog \cup { [ op |-> "setCurrentBackground",
                                      leaflet |-> lf, req |-> 0 ] }

\* this.storage.get( 'background' ) || 0
StoredBackground == IF stored = Null THEN 0 ELSE ValueOf(stored)

\* ------------------------------------------------------------ waitForLeaflet
\* waitForLeaflet that never waits
LeafletMissingNever(lf) == FALSE

\* the test of waitForLeaflet
LeafletMissing(lf) == lf = Null

\* the closure handed to waitForLeaflet by streamMarkersIn.  A response
\* without a query member makes data.query.markers throw before
\* instantiateMarkers is entered.
RunCallback(cb) ==
    LET entered == cb.markers # Null
        res == IF entered
               THEN InstantiateMarkers(registered, members, ValueOf(cb.markers), cb.req)
               ELSE [ registered |-> registered, members |-> members, threw |-> TRUE ]
    IN  /\ registered' = res.registered
        /\ members' = res.members
        /\ invoked' = Append(invoked, cb.req)
        /\ execLog' = IF entered
                      THEN execLog \cup { [ op |-> "instantiateMarkers",
                                            leaflet |-> leaflet, req |-> cb.req ] }
                      ELSE execLog
        /\ LET opened == AutoOpened(res.members, Len(members))
           IN  /\ popupCalls' = popupCalls \cup
                      { [ marker |-> k, placed |-> k, req |-> cb.req,
                          total  |-> Len(members) + PlacementCount(ValueOf(cb.markers), 1) ] :
                        k \in opened }
               /\ popup' = IF opened = {} THEN popup ELSE Some(Last(opened))
               /\ urlMarker' = IF opened = {} THEN urlMarker
                               ELSE UrlAfterOpen(res.members[Last(opened)])
               /\ lastPopupEvent' =
                      IF opened = {} THEN lastPopupEvent
                      ELSE IF popup # Null \/ Cardinality(opened) > 1 THEN "switch"
                      ELSE "open"
        /\ managerLog' = IF entered
                         THEN Some([ data  |-> ValueOf(cb.markers),
                                     threw |-> res.threw,
                                     calls |-> InstantiateLog(ValueOf(cb.markers),
                                                              res.members, Len(members)) ])
                         ELSE managerLog
        /\ IF res.threw
           THEN /\ requests' = [ requests EXCEPT ![cb.req] = "threw" ]
                /\ UNCHANGED successCalls
           ELSE /\ requests' = [ requests EXCEPT ![cb.req] = "done" ]
                /\ successCalls' = [ successCalls EXCEPT ![cb.req] = @ + 1 ]

\* a waitForLeaflet that drops the callback when the map is missing
WaitForLeafletNoRetry(cb, q) ==
    IF LeafletMissing(leaflet)
    THEN /\ timers' = q
         /\ polled' = polled
         /\ requests' = [ requests EXCEPT ![cb.req] = "waiting" ]
         /\ UNCHANGED << markerVars, invoked, successCalls, execLog, popupVars >>
    ELSE /\ timers' = q
         /\ polled' = polled
         /\ RunCallback(cb)

\* DataMap.prototype.waitForLeaflet; q is the timer queue without the caller
WaitForLeaflet(cb, q) ==
    IF LeafletMissing(leaflet)
    THEN /\ timers' = Append(q, cb)
         /\ polled' = polled \cup { cb.req }
         /\ requests' = [ requests EXCEPT ![cb.req] = "waiting" ]
         /\ UNCHANGED << markerVars, invoked, successCalls, execLog, popupVars >>
    ELSE /\ timers' = q
         /\ polled' = polled
         /\ RunCallback(cb)

\* ------------------------------------------------------------------ actions
RequestIds == 1 .. MaxRequests

\* a fulfilment handler that does not look at the error member
HasErrorIgnored(data) == FALSE

\* the response's error member, as the fulfilment handler tests it
HasError(data) == data.error

\* streamMarkersIn is called: the query is sent
StreamMarkersIn ==
    /\ \E r \in RequestIds :
          /\ r <= streams
          /\ fetch[r] = "none"
          /\ \A o \in RequestIds : o < r => fetch[o] # "none"
          /\ fetch' = [ fetch EXCEPT ![r] = "pending" ]
          /\ overlaps' = overlaps \cup { << o, r >> : o \in { x \in RequestIds :
                                                          fetch[x] = "pending" } }
    /\ UNCHANGED << popupVars, sessionVars, configVars, backgroundVars, markerVars, callbackVars,
                    leaflet, stored, requests, timers, polled, errorCalls, execLog, call >>

\* the promise of mwApi.get is rejected: errorCallback is the rejection handler
FetchRejected(r) ==
    /\ fetch[r] = "pending"
    /\ fetch' = [ fetch EXCEPT ![r] = "rejected" ]
    /\ requests' = [ requests EXCEPT ![r] = "failed" ]
    /\ errorCalls' = [ errorCalls EXCEPT ![r] = @ + 1 ]
    /\ UNCHANGED << popupVars, sessionVars, overlaps, configVars, backgroundVars, markerVars, callbackVars,
                    leaflet, stored, timers, polled, execLog, call >>

\* the promise of mwApi.get is fulfilled with data
FetchResolved(r, data) ==
    /\ fetch[r] = "pending"
    /\ fetch' = [ fetch EXCEPT ![r] = IF data.error THEN "error" ELSE "data" ]
    /\ IF HasError(data)
       THEN /\ requests' = [ requests EXCEPT ![r] = "failed" ]
            /\ errorCalls' = [ errorCalls EXCEPT ![r] = @ + 1 ]
            /\ UNCHANGED << markerVars, callbackVars, timers, polled, execLog, popupVars >>
       ELSE /\ issued' = Append(issued, r)
            /\ UNCHANGED errorCalls
            /\ WaitForLeaflet([ req |-> r, markers |-> data.markers ], timers)
    /\ UNCHANGED << sessionVars, overlaps, configVars, backgroundVars, leaflet, stored, call >>

\* a 25 ms timer fires: waitForLeaflet runs again for its callback
TimerFires ==
    /\ timers # << >>
    /\ WaitForLeaflet(Head(timers), Tail(timers))
    /\ UNCHANGED << sessionVars, overlaps, configVars, backgroundVars, leaflet, stored, fetch, issued,
                    errorCalls, call >>

\* the module loader runs buildLeafletMap: the map is created, the stored
\* background (or the first) is installed, the view is fitted to it and the
\* groups are registered.  No background of the configuration has an at
\* member, so buildLeafletMap sets background.at to config.crs.
BuildLeafletMap ==
    /\ leaflet = Null
    /\ leaflet' = Some("map")
    /\ SetCurrentBackground(StoredBackground, Some("map"))
    /\ viewBounds' = Some(TranslateBox(crs))
    /\ registered' = RegisterEach(registered, GroupNames)
    /\ UNCHANGED << popupVars, sessionVars, overlaps, configVars, stored, members, fetch, requests, timers, polled,
                    callbackVars, errorCalls, call >>

\* a change handler that switches the background without storing the choice
BackgroundSwitchChangeUnsaved(v) ==
    /\ leaflet # Null
    /\ numBackgrounds > 1
    /\ SetCurrentBackground(v, leaflet)
    /\ chosen' = Some(v)
    /\ UNCHANGED << popupVars, markerIdToAutoOpen, dismissals, reloads, overlaps, configVars, viewBounds, leaflet, markerVars, fetch, requests,
                    timers, polled, callbackVars, errorCalls, call, stored >>

\* the change handler of the background switch, the user having chosen the
\* option with value v
BackgroundSwitchChange(v) ==
    /\ leaflet # Null
    /\ numBackgrounds > 1
    /\ SetCurrentBackground(v, leaflet)
    /\ stored' = Some(v)
    /\ chosen' = Some(v)
    /\ UNCHANGED << popupVars, markerIdToAutoOpen, dismissals, reloads, overlaps, configVars, viewBounds, leaflet, markerVars, fetch, requests,
                    timers, polled, callbackVars, errorCalls, call >>

\* a direct call of one of the two coordinate transforms (they are pure: one
\* call a run shows all they do)
CallTranslatePoint(p) ==
    /\ call = Null
    /\ call' = Some([ op |-> "translatePoint", arg |-> p, result |-> TranslatePoint(p) ])
    /\ UNCHANGED << popupVars, sessionVars, overlaps, configVars, backgroundVars, execLog, leaflet, stored, markerVars,
                    fetch, requests, timers, polled, callbackVars, errorCalls >>

CallTranslateBox(b) ==
    /\ call = Null
    /\ call' = Some([ op |-> "translateBox", arg |-> b, result |-> TranslateBox(b) ])
    /\ UNCHANGED << popupVars, sessionVars, overlaps, configVars, backgroundVars, execLog, leaflet, stored, markerVars,
                    fetch, requests, timers, polled, callbackVars, errorCalls >>

\* the mouse moves over the render position of the native point p and the
\* coordinate tracker's mousemove handler runs
MouseMove(p) ==
    /\ call = Null
    /\ call' = Some([ op |-> "mousemove", arg |-> p,
                      result |-> TrackerCoordinates(TranslatePoint(p)) ])
    /\ UNCHANGED << popupVars, sessionVars, overlaps, configVars, backgroundVars, execLog, leaflet, stored, markerVars,
                    fetch, requests, timers, polled, callbackVars, errorCalls >>

\* the user clicks marker i: Leaflet closes the open popup, if any, and opens
\* the popup of the marker; the popupclose and popupopen handlers run
OpenPopup(i) ==
    /\ leaflet # Null
    /\ popup # Some(i)
    /\ popup' = Some(i)
    /\ urlMarker' = UrlAfterOpen(members[i])
    /\ lastPopupEvent' = IF popup # Null THEN "switch" ELSE "open"
    /\ UNCHANGED << overlaps, configVars, backgroundVars, execLog, leaflet, stored,
                    markerVars, fetch, requests, timers, polled, callbackVars, errorCalls,
                    call, popupCalls, managerLog, sessionVars >>

\* the open popup is closed and the popupclose handler runs
ClosePopup ==
    /\ popup # Null
    /\ popup' = Null
    /\ urlMarker' = UrlAfterClose
    /\ lastPopupEvent' = "close"
    /\ UNCHANGED << overlaps, configVars, backgroundVars, execLog, leaflet, stored,
                    markerVars, fetch, requests, timers, polled, callbackVars, errorCalls,
                    call, popupCalls, managerLog, sessionVars >>

\* a popup that shows every group the dismiss tool
HasDismissToolAlways(groupName) == TRUE

\* MarkerPopup.buildTools: the dismiss tool is only built for a group that is
\* collectible
HasDismissTool(groupName) == Groups[groupName].canDismiss

\* toggleMarkerDismissal on the storage: the entry of the key is flipped
ToggleDismissal(keys, key) ==
    IF key \in keys THEN keys \ { key } ELSE keys \cup { key }

\* the user clicks the dismiss tool of the open popup: the dismissal of its
\* marker is toggled and the popup is closed
DismissToolClick ==
    /\ popup # Null
    /\ LET i == ValueOf(popup)
           marker == members[i]
       IN  /\ HasDismissTool(Split(marker.type)[1])
           /\ dismissals' = ToggleDismissal(dismissals,
                                            GetMarkerKey(marker.type, marker.instance))
           /\ members' = [ members EXCEPT ![i].dismissed = ~@ ]
    /\ popup' = Null
    /\ urlMarker' = UrlAfterClose
    /\ lastPopupEvent' = "close"
    /\ UNCHANGED << overlaps, configVars, backgroundVars, execLog, leaflet, stored,
                    registered, fetch, requests, timers, polled, callbackVars, errorCalls,
                    call, popupCalls, managerLog, markerIdToAutoOpen, chosen, reloads >>

\* the page is loaded again: the constructor runs over the same configuration,
\* the same storage and the URL as the last page left it
Reload ==
    /\ reloads < MaxReloads
    /\ reloads' = reloads + 1
    /\ markerIdToAutoOpen' = urlMarker
    /\ background' = Null
    /\ backgroundIndex' = 0
    /\ leaflet' = Null
    /\ mapLayers' = {}
    /\ viewBounds' = Null
    /\ registered' = {}
    /\ members' = << >>
    /\ overlaps' = {}
    /\ fetch' = [ r \in RequestIds |-> "none" ]
    /\ requests' = [ r \in RequestIds |-> "idle" ]
    /\ timers' = << >>
    /\ polled' = {}
    /\ issued' = << >>
    /\ invoked' = << >>
    /\ successCalls' = [ r \in RequestIds |-> 0 ]
    /\ errorCalls' = [ r \in RequestIds |-> 0 ]
    /\ execLog' = {}
    /\ lastBackgroundRequest' = Null
    /\ call' = Null
    /\ popup' = Null
    /\ popupCalls' = {}
    /\ lastPopupEvent' = "none"
    /\ managerLog' = Null
    /\ UNCHANGED << configVars, stored, urlMarker, dismissals, chosen >>

\* ------------------------------------------------------------ specifications
\* the state the constructor leaves for the configuration c, n backgrounds
\* and the storage entry s
Constructed(c, n, s) ==
    /\ crs = c
    /\ crsOrigin = CrsOriginOf(c)
    /\ crsScaleY = CrsScaleOf(c, 1)
    /\ crsScaleX = CrsScaleOf(c, 2)
    /\ numBackgrounds = n
    /\ background = Null
    /\ backgroundIndex = 0
    /\ leaflet = Null
    /\ mapLayers = {}
    /\ viewBounds = Null
    /\ stored = s
    /\ registered = {}
    /\ members = << >>
    /\ overlaps = {}
    /\ fetch = [ r \in RequestIds |-> "none" ]
    /\ requests = [ r \in RequestIds |-> "idle" ]
    /\ timers = << >>
    /\ polled = {}
    /\ issued = << >>
    /\ invoked = << >>
    /\ successCalls = [ r \in RequestIds |-> 0 ]
    /\ errorCalls = [ r \in RequestIds |-> 0 ]
    /\ execLog = {}
    /\ lastBackgroundRequest = Null
    /\ call = Null
    /\ popup = Null
    /\ popupCalls = {}
    /\ lastPopupEvent = "none"
    /\ managerLog = Null
    /\ chosen = Null
    /\ reloads = 0

\* what the page load finds: the marker id of the query string and the
\* dismissal entries of the storage
Loaded(id, entries) ==
    /\ markerIdToAutoOpen = id
    /\ urlMarker = id
    /\ dismissals = entries

\* the map controller: marker streaming, Leaflet start-up, backgrounds
Init ==
    Constructed(CrsLowerUpper, MaxBackgrounds, Null) /\ Loaded(Null, {})
        /\ streams = MaxRequests

Next ==
    \/ StreamMarkersIn
    \/ \E r \in RequestIds : FetchRejected(r)
    \/ \E r \in RequestIds, data \in Responses : FetchResolved(r, data)
    \/ TimerFires
    \/ BuildLeafletMap
    \/ \E v \in 0 .. numBackgrounds - 1 : BackgroundSwitchChange(v)

Spec == Init /\ [][Next]_vars

\* the responses of the runs that follow the polling: a payload that is
\* ingested and one that makes the callback throw
PollResponses == { DataResponse(PayloadChest), DataResponse(PayloadUnknown) }

\* waitForLeaflet and the browser's timers: a setTimeout that is pending fires
\* after its delay.  Nothing obliges the module loader to ever run
\* buildLeafletMap.
InitTimers ==
    Constructed(CrsLowerUpper, 1, Null) /\ Loaded(Null, {}) /\ streams = MaxPollers

NextTimers ==
    \/ StreamMarkersIn
    \/ \E r \in RequestIds, data \in PollResponses : FetchResolved(r, data)
    \/ TimerFires
    \/ BuildLeafletMap

SpecTimers == InitTimers /\ [][NextTimers]_vars /\ WF_vars(TimerFires)

\* the coordinate transform on its own: any configured corners, any argument
InitCRS ==
    \E c \in AllCrs : Constructed(c, 1, Null) /\ Loaded(Null, {}) /\ streams = 0

NextCRS ==
    \/ \E p \in Points : CallTranslatePoint(p)
    \/ \E b \in Boxes : CallTranslateBox(b)
    \/ \E p \in Points : MouseMove(p)

SpecCRS == InitCRS /\ [][NextCRS]_vars

\* the marker ids a query string may ask for: none, the uid of a marker, the
\* derived key of a marker without uid, a key no marker has
RequestedIds ==
    { Null, Some(<< "u" >>), Some(GetMarkerKey(<< "c", " ", "v" >>, Inst(50, 50))),
      Some(<< "z" >>) }

\* the dismissal entries an earlier page load may have left
StoredDismissals ==
    { {}, { GetMarkerKey(<< "c" >>, InstUid(25, 75, << "u" >>)) } }

\* markers and their popups: ingestion, deep links, popups, dismissal
InitPopup ==
    \E id \in RequestedIds, entries \in StoredDismissals :
        Constructed(CrsLowerUpper, 1, Null) /\ Loaded(id, entries)
            /\ streams = MaxPopupStreams

NextPopup ==
    \/ StreamMarkersIn
    \/ \E r \in RequestIds, data \in PopupResponses : FetchResolved(r, data)
    \/ TimerFires
    \/ BuildLeafletMap
    \/ \E i \in DOMAIN members : OpenPopup(i)
    \/ ClosePopup
    \/ DismissToolClick

SpecPopup == InitPopup /\ [][NextPopup]_vars

\* backgrounds over page loads: start-up, the background switch, reloads
InitBackground ==
    \E c \in ControllerCrs, n \in 1 .. MaxBackgrounds, s \in StoredValues :
        Constructed(c, n, s) /\ Loaded(Null, {}) /\ streams = 0

NextBackground ==
    \/ BuildLeafletMap
    \/ \E v \in 0 .. numBackgrounds - 1 : BackgroundSwitchChange(v)
    \/ Reload

SpecBackground == InitBackground /\ [][NextBackground]_vars

\* -------------------------------------------------------------------- claims
\* the markers the layer manager holds that request r created
MarkersOf(r) == { i \in DOMAIN members : members[i].request = r }

\* position of request r in a sequence of requests, 0 if absent
RECURSIVE PositionIn(_, _, _)
PositionIn(seq, r, from) ==
    IF from > Len(seq) THEN 0
    ELSE IF seq[from] = r THEN from
    ELSE PositionIn(seq, r, from + 1)

\* C1: when streamMarkersIn is called again while an earlier call's fetch is
\* outstanding, then once both responses have been processed the layer manager
\* holds the markers of the later request and none of the earlier one.
C1_LatestRequestWins ==
    \A pair \in overlaps :
        (requests[pair[1]] = "done" /\ requests[pair[2]] = "done")
            => (MarkersOf(pair[1]) = {} /\ MarkersOf(pair[2]) # {})

\* C2: callbacks handed to waitForLeaflet are invoked in the order in which
\* they were handed over: if B was issued after A and B has been invoked, then
\* A was invoked before B.
C2_IssueOrder ==
    \A i, j \in DOMAIN issued :
        (i < j /\ PositionIn(invoked, issued[j], 1) # 0)
            => /\ PositionIn(invoked, issued[i], 1) # 0
               /\ PositionIn(invoked, issued[i], 1) < PositionIn(invoked, issued[j], 1)

\* C3: instantiateMarkers and setCurrentBackground only ever execute with
\* this.leaflet set, whatever the order of the fetch responses and of
\* buildLeafletMap.
C3_LeafletReady == \A e \in execLog : e.leaflet # Null

\* C3 witness: a response arrived before the map existed, its callback waited
\* and both operations have since executed.
C3_Witness ==
    /\ \E e \in execLog : e.op = "instantiateMarkers" /\ e.leaflet # Null
    /\ \E e \in execLog : e.op = "setCurrentBackground" /\ e.leaflet # Null
    /\ timers # << >>

\* C4: when the fetch of a request fails (rejected, or a response with an
\* error member), errorCallback is invoked once and successCallback never,
\* instantiateMarkers is never run for the request, and handling the failure
\* leaves the markers and the registered layers as they were.
C4_FetchFailure ==
    /\ [](\A r \in RequestIds :
             fetch[r] \in { "rejected", "error" }
                 => /\ errorCalls[r] = 1
                    /\ successCalls[r] = 0
                    /\ MarkersOf(r) = {}
                    /\ \A e \in execLog : e.req # r)
    /\ [][ (\E r \in RequestIds :
               fetch[r] = "pending" /\ fetch'[r] \in { "rejected", "error" })
           => (members' = members /\ registered' = registered) ]_vars

\* C4 witness: one request failed while the other one's markers are in place.
C4_Witness ==
    /\ \E r \in RequestIds : fetch[r] = "error" /\ errorCalls[r] = 1
    /\ members # << >>

\* C5: a payload with a key whose group config.groups does not know is
\* aborted as a whole: none of its markers exists afterwards and none of its
\* layers stays registered.
C5_AllOrNothing ==
    \A r \in RequestIds :
        requests[r] = "threw" => (MarkersOf(r) = {} /\ << "x" >> \notin registered)

\* C6: setCurrentBackground(index) makes background index the current one when
\* index is within 0 .. backgrounds.length - 1, and background 0 otherwise.
C6_Clamp ==
    lastBackgroundRequest # Null =>
        LET index == ValueOf(lastBackgroundRequest)
            expected == IF index \in 0 .. numBackgrounds - 1 THEN index ELSE 0
        IN  backgroundIndex = expected /\ background = Some(expected)

\* C6 witness: index 7 was requested with two backgrounds configured.
C6_Witness ==
    /\ lastBackgroundRequest = Some(7)
    /\ numBackgrounds = 2
    /\ backgroundIndex = 0

\* C7: after every completed background change the storage entry 'background'
\* holds the current backgroundIndex.
C7_Persisted ==
    lastBackgroundRequest # Null => stored = Some(backgroundIndex)

\* the constructor's orientation condition, read off the configured corners
LowerUpper == crs[1][1] < crs[2][1] /\ crs[1][2] < crs[2][2]

\* C8: the origin is TopLeft, and translatePoint flips the latitude, if and
\* only if both components of crs[0] are smaller than those of crs[1].
C8_Orientation ==
    /\ (crsOrigin = TopLeft) <=> LowerUpper
    /\ (call # Null /\ ValueOf(call).op = "translatePoint") =>
          LET c == ValueOf(call)
          IN  c.result[1] = JsMul(IF LowerUpper THEN crs[2][1] - c.arg[1] ELSE c.arg[1],
                                  crsScaleY)

\* C8 witness: translatePoint was called under a lower/upper configuration and
\* the latitude it returned is not the unflipped one.
C8_Witness ==
    /\ LowerUpper
    /\ call # Null
    /\ ValueOf(call).op = "translatePoint"
    /\ ValueOf(call).result[1] # JsMul(ValueOf(call).arg[1], crsScaleY)

\* C9: translateBox of a box is translatePoint of its two corners, in order.
C9_BoxIsPointwise ==
    (call # Null /\ ValueOf(call).op = "translateBox") =>
        LET c == ValueOf(call)
        IN  c.result = << TranslatePoint(c.arg[1]), TranslatePoint(c.arg[2]) >>

\* the call translatePoint( [ 25, 75 ] ) has been made
ScenarioCall ==
    call # Null /\ ValueOf(call).op = "translatePoint" /\ ValueOf(call).arg = << 25, 75 >>

\* C10 as stated: bounds [[0,0],[100,100]] give a bottom-left origin and
\* translatePoint([25,75]) = [25,75]; bounds [[100,100],[0,0]] give a top-left
\* origin and translatePoint([25,75]) = [25,25].
C10_Scenario ==
    /\ (crs = CrsLowerUpper /\ ScenarioCall) =>
          /\ crsOrigin = BottomLeft
          /\ ValueOf(call).result = << Num(25), Num(75) >>
    /\ (crs = CrsUpperLower /\ ScenarioCall) =>
          /\ crsOrigin = TopLeft
          /\ ValueOf(call).result = << Num(25), Num(25) >>

\* C10 amended: bounds [[0,0],[100,100]] give a top-left origin and
\* translatePoint([25,75]) = [75,75] (latitude flipped, scale 1); bounds
\* [[100,100],[0,0]] give a bottom-left origin and translatePoint([25,75]) =
\* [25,75] (no flip, scale 1).
C10_ScenarioAmended ==
    /\ (crs = CrsLowerUpper /\ ScenarioCall) =>
          /\ crsOrigin = TopLeft
          /\ ValueOf(call).result = << Num(75), Num(75) >>
    /\ (crs = CrsUpperLower /\ ScenarioCall) =>
          /\ crsOrigin = BottomLeft
          /\ ValueOf(call).result = << Num(25), Num(75) >>

\* C10 witness: the scenario's call under bounds [[0,0],[100,100]].
C10_Witness ==
    /\ crs = CrsLowerUpper
    /\ ScenarioCall
    /\ ValueOf(call).result = << Num(75), Num(75) >>

\* the other valid layout: both components of crs[0] larger than those of crs[1]
UpperLower == crs[1][1] > crs[2][1] /\ crs[1][2] > crs[2][2]

\* C11: a configuration whose corners are in neither ordering is rejected:
\* construction fails, no origin is chosen for it and no transform runs.
C11_InvalidRejected ==
    ~(LowerUpper \/ UpperLower) =>
        (crsOrigin \notin { TopLeft, BottomLeft } /\ call = Null)

\* the native point p lies between the two configured corners on both axes
WithinBounds(p) ==
    \A axis \in 1 .. 2 :
        /\ p[axis] >= (IF crs[1][axis] <= crs[2][axis] THEN crs[1][axis] ELSE crs[2][axis])
        /\ p[axis] <= Max(crs[1][axis], crs[2][axis])

\* C12: for both origins and every native point P within the configured
\* bounds, translatePoint followed by the tracker's inverse gives back P.
C12_RoundTrip ==
    (call # Null /\ ValueOf(call).op = "translatePoint"
                 /\ (LowerUpper \/ UpperLower) /\ WithinBounds(ValueOf(call).arg)) =>
        RenderToNative(ValueOf(call).result)
            = << Num(ValueOf(call).arg[1]), Num(ValueOf(call).arg[2]) >>

\* C13: for every valid corner pair and every native point between the
\* corners, both components of translatePoint(P) lie in 0 .. 100.
C13_NormalizedRange ==
    (call # Null /\ ValueOf(call).op = "translatePoint"
                 /\ (LowerUpper \/ UpperLower) /\ WithinBounds(ValueOf(call).arg)) =>
        \A axis \in 1 .. 2 :
            /\ JsLeq(Num(0), ValueOf(call).result[axis])
            /\ JsLeq(ValueOf(call).result[axis], Num(100))

\* the group of a marker: the first token of its layer-combination key
GroupOf(marker) == Split(marker.type)[1]

\* C14: onMarkerReady calls openPopup on a new marker if and only if a marker
\* id was requested and equals the marker's stable key: its uid slot when it
\* has one, storage.getMarkerKey(type, instance) otherwise.
C14_DeepLinkFocus ==
    /\ \A k \in DOMAIN members :
          (\E c \in popupCalls : c.marker = k)
              <=> /\ markerIdToAutoOpen # Null
                  /\ ValueOf(markerIdToAutoOpen) =
                         (IF members[k].instance.uid # Null
                          THEN ValueOf(members[k].instance.uid)
                          ELSE GetMarkerKey(members[k].type, members[k].instance))
    /\ markerIdToAutoOpen = Null => popupCalls = {}

\* C14 witness: the uid of a marker was requested; openPopup was called on that
\* marker and not on the other marker of its payload.
C14_Witness ==
    /\ \E c \in popupCalls : members[c.marker].instance.uid = markerIdToAutoOpen
    /\ \E k \in DOMAIN members : \A c \in popupCalls : c.marker # k

\* C15: once a popup has been opened or closed, the URL's marker parameter is
\* the stable key of the marker whose popup is open, and absent when no popup
\* is open.
C15_UrlTracksPopup ==
    lastPopupEvent # "none" =>
        urlMarker = (IF popup = Null THEN Null
                     ELSE Some(ReadyKey(members[ValueOf(popup)].type,
                                        members[ValueOf(popup)].instance)))

\* C15 witness: the popup of a marker with a uid was opened while another
\* popup was open, and the parameter is that uid.
C15_Witness ==
    /\ lastPopupEvent = "switch"
    /\ popup # Null
    /\ members[ValueOf(popup)].instance.uid # Null
    /\ urlMarker = members[ValueOf(popup)].instance.uid

\* C16: a marker of a group with collectibility none is never dismissed and
\* the storage never holds a dismissal entry for it.
C16_NoneNeverDismissed ==
    \A k \in DOMAIN members :
        ~Groups[GroupOf(members[k])].canDismiss
            => /\ ~members[k].dismissed
               /\ GetMarkerKey(members[k].type, members[k].instance) \notin dismissals

\* C16 witness: the popup of an icon marker of a none group is open while a
\* collectible marker is dismissed.
C16_Witness ==
    /\ popup # Null
    /\ GroupOf(members[ValueOf(popup)]) = << "n" >>
    /\ \E k \in DOMAIN members : members[k].dismissed

\* C17: openPopup for the requested marker is called only when every marker of
\* the payload has been created and added to the layer manager.
C17_FocusAfterIngestion == \A c \in popupCalls : c.placed = c.total

\* the positions of a call in the log of the last instantiateMarkers run
LogPositions(entry) ==
    { i \in DOMAIN ValueOf(managerLog).calls : ValueOf(managerLog).calls[i] = entry }

C18_BackgroundSurvivesReload ==
    leaflet # Null =>
        /\ chosen # Null => backgroundIndex = ValueOf(chosen)
        /\ stored = Null => backgroundIndex = 0

\* C18 witness: background 1 was chosen, the page was loaded again and the
\* map has been built.
C18_Witness ==
    /\ reloads >= 1
    /\ leaflet # Null
    /\ chosen = Some(1)
    /\ backgroundIndex = 1

\* C20: the background layers on the Leaflet map are exactly the layers of
\* config.backgrounds[backgroundIndex].
C20_CurrentLayersOnly ==
    mapLayers = (IF leaflet = Null THEN {} ELSE BackgroundLayers(backgroundIndex))

\* C20 witness: on the first page load the user chose background 1 of two in
\* the switch, and the layers of background 1 are the ones on the map.
C20_Witness ==
    /\ leaflet # Null
    /\ numBackgrounds = 2
    /\ lastBackgroundRequest = Some(1)
    /\ chosen = Some(1)
    /\ reloads = 0
    /\ mapLayers = BackgroundLayers(1)

\* C21: for every streamMarkersIn call successCallback and errorCallback
\* exclude each other and each runs at most once, successCallback runs only
\* after instantiateMarkers has finished for the call's response, and every
\* response path, an exception inside instantiateMarkers included, ends with
\* one of the two invoked.
C21_OneCallback ==
    \A r \in RequestIds :
        /\ successCalls[r] + errorCalls[r] <= 1
        /\ successCalls[r] = 1 =>
              /\ requests[r] = "done"
              /\ \E e \in execLog : e.op = "instantiateMarkers" /\ e.req = r
        /\ requests[r] \in { "done", "failed", "threw" } =>
              successCalls[r] + errorCalls[r] = 1

\* the pending timers that hold the callback of request r
TimersOf(r) == { i \in DOMAIN timers : timers[i].req = r }

\* the number of times the callback of request r was invoked
InvocationsOf(r) == Cardinality({ i \in DOMAIN invoked : invoked[i] = r })

\* C22: a callback passed to waitForLeaflet is invoked exactly once.  It is
\* never invoked twice and no poll for it is pending once it ran; while the
\* map is missing it is not invoked and a poll for it stays pending; and once
\* the map is ready, timers firing, it is eventually invoked.
C22_InvokedExactlyOnce ==
    /\ [](\A r \in RequestIds :
            /\ InvocationsOf(r) <= 1
            /\ InvocationsOf(r) = 1 => (r \in Range(issued) /\ TimersOf(r) = {})
            /\ (r \in Range(issued) /\ InvocationsOf(r) = 0) =>
                  Cardinality(TimersOf(r)) = 1
            /\ leaflet = Null => InvocationsOf(r) = 0)
    /\ \A r \in RequestIds :
          (r \in Range(issued) /\ leaflet # Null) ~> (InvocationsOf(r) = 1)

\* C22 witness: a callback was put on a timer because the map was missing, and
\* has since been invoked; no poll is pending.
C22_Witness ==
    \E r \in polled : InvocationsOf(r) = 1 /\ timers = << >> /\ leaflet # Null

====
